---- MODULE Spec2Model ----
(***************************************************************************)
(* Model of the orchestration logic of AppContent (src/App.tsx): the view  *)
(* state, the re-curation pipeline (updateRoutes), the selection, detour   *)
(* and category-filter handlers, and the destination markers whose click   *)
(* handlers keep the closure of the render that created them.              *)
(*                                                                         *)
(* One action is one task of the event loop: a handler up to its await, or *)
(* the continuation of an await, together with the effects of the render   *)
(* it causes.  A request that is awaited sits in a queue until a response  *)
(* action takes it, in any order.                                          *)
(*                                                                         *)
(* Optional values (null / undefined in the source) are sequences of       *)
(* length 0 or 1: None is <<>>, Some(x) is <<x>>.                          *)
(* Coordinates are points on a line, in whole distance units.  Route       *)
(* distances are in 1/100 of a distance unit and durations in 1/100 of a   *)
(* second, so that the factors 1.35 and 1.4 are integer operations.        *)
(***************************************************************************)
EXTENDS Integers, Sequences, FiniteSets, TLC

VARIABLES
    phase,               \* "init" before the mount effects ran, "running" after
    hasError,            \* ErrorBoundary.state.hasError
    map,                 \* map.current # null
    seed,                \* FEATURED_CAFES, the static seed list
    hasInitialLoaded,    \* state hasInitialLoaded
    geo,                 \* the one-shot geolocation query: "idle", "pending", "done", "failed"
    elevPending,         \* a fetchPointElevation promise is pending
    userLocation,        \* state userLocation (optional coordinate)
    userElevation,       \* state userElevation (optional number)
    lastCalcLocation,    \* ref lastCalcLocation (optional coordinate)
    destinations,        \* state destinations (sequence of destinations)
    selectedDestination, \* state selectedDestination (optional destination)
    isLoading,           \* state isLoading
    markers,             \* markersRef with the closure the click handlers captured
    curateReqs,          \* pending curateDestinations calls, in order of issue
    routeReqs,           \* pending getWalkingRoute calls, in order of issue
    detourReqs,          \* pending getDetourRoute calls, in order of issue
    emphasized,          \* ids of the destination markers that carry the emphasis classes
    routeSource,         \* the map has its 'route' source (added by the load handler)
    routeData,           \* data of the 'route' source: optional geometry, None when empty
    viaMarker,           \* routeViaMarkerRef: optional position of the via-waypoint marker
    lastEvent,           \* history: the handler that made the last step, and its input
    userEvents,          \* history: number of user actions so far
    userSelected         \* history: the id the user selected last, None once cleared

vars == <<phase, hasError, map, seed, hasInitialLoaded, geo, elevPending,
          userLocation, userElevation, lastCalcLocation, destinations,
          selectedDestination, isLoading, markers, curateReqs, routeReqs,
          detourReqs, emphasized, routeSource, routeData, viaMarker, lastEvent,
          userEvents, userSelected>>

----------------------------------------------------------------------------
(* Bounds of the model *)

\* at most this many service requests (curation, routing, detour) are pending at once
MaxInFlight == 2

\* at most this many user actions (drag, selection, detour, filter, back) in a run
MaxUserEvents == 2

----------------------------------------------------------------------------
(* Program constants *)

\* displacement threshold of updateRoutes: getDistance(...) > 20
RecalcThreshold == 20

\* detour factor 1.35, in hundredths
DetourFactor == 135

\* walking speed 1.4, in tenths
WalkingSpeed == 14

----------------------------------------------------------------------------
(* Optional values *)

None == <<>>

Some(x) == <<x>>

IsSome(o) == Len(o) = 1

Get(o) == o[1]

----------------------------------------------------------------------------
(* Data: coordinates, the seed list, the routes the services can return *)

\* the places the user can be located at or drag the user marker to
UserLocs == {0, 20, 21}

\* the positions the geolocation query can report
GpsLocs == {0}

\* the elevations fetchPointElevation can resolve with
Elevations == {5}

\* categories accepted by handleCategoryFilter
Categories == {"cafe", "bar"}

\* a seed list with two cafes and a bar
SeedMixed ==
    << [id |-> 1, category |-> "cafe", coordinates |-> 0,  elevation |-> Some(10), route |-> None],
       [id |-> 2, category |-> "bar",  coordinates |-> 30, elevation |-> None,     route |-> None],
       [id |-> 3, category |-> "cafe", coordinates |-> 10, elevation |-> None,     route |-> None] >>

\* a seed list without any bar
SeedCafes ==
    << [id |-> 1, category |-> "cafe", coordinates |-> 0,  elevation |-> Some(10), route |-> None],
       [id |-> 3, category |-> "cafe", coordinates |-> 10, elevation |-> None,     route |-> None] >>

\* the values FEATURED_CAFES may have
Seeds == {SeedMixed, SeedCafes}

\* the destination ids handleUpdateRoute is called with: one that is in every list, one
\* that a filter or the seed can leave out
DetourIds == {1, 2}

\* straight-line distance between two coordinates
getDistance(a, b) == IF a >= b THEN a - b ELSE b - a

\* the routes getWalkingRoute can resolve with: server-confirmed, never estimates.
\* The field "from" of a route is not in the source: it records the user location the
\* route was computed or requested from, and no handler reads it.
WalkingRoutes ==
    { [distance |-> 6000, duration |-> 4500, geometry |-> Some(<<0, 60>>), steps |-> <<"s">>,
       isEstimate |-> FALSE, elevationGain |-> None, viaWaypoint |-> None, from |-> 0] }

\* the routes getDetourRoute can resolve with
DetourRoutes ==
    { [distance |-> 9000, duration |-> 7000, geometry |-> Some(<<0, 90>>), steps |-> <<"s">>,
       isEstimate |-> FALSE, elevationGain |-> None, viaWaypoint |-> Some(8), from |-> 0] }

----------------------------------------------------------------------------
(* Pure computations of updateRoutes *)

\* isLocChanged with the threshold compared by >= instead of >
isLocChanged_AtThreshold(loc, last) ==
    \/ ~IsSome(last)
    \/ IsSome(loc) /\ getDistance(Get(loc), Get(last)) >= RecalcThreshold

\* !lastCalcLocation.current || (userLocation && getDistance(...) > 20)
isLocChanged(loc, last) ==
    \/ ~IsSome(last)
    \/ IsSome(loc) /\ getDistance(Get(loc), Get(last)) > RecalcThreshold

\* EstimateRoute with the detour factor left out of the distance
EstimateRoute_NoDetourFactor(loc, elev, d) ==
    LET dist        == getDistance(loc, d.coordinates)
        estWalkDist == dist * 100
        netElev     == IF IsSome(d.elevation) /\ IsSome(elev)
                       THEN Some(Get(d.elevation) - Get(elev))
                       ELSE None
    IN  [distance |-> estWalkDist, duration |-> (estWalkDist * 10) \div WalkingSpeed,
         geometry |-> Some(<<>>), steps |-> <<>>, isEstimate |-> TRUE,
         elevationGain |-> netElev, viaWaypoint |-> None, from |-> loc]

\* the estimate route built for destination d from user position loc
EstimateRoute(loc, elev, d) ==
    LET dist        == getDistance(loc, d.coordinates)
        estWalkDist == dist * DetourFactor
        netElev     == IF IsSome(d.elevation) /\ IsSome(elev)
                       THEN Some(Get(d.elevation) - Get(elev))
                       ELSE None
    IN  [distance |-> estWalkDist, duration |-> (estWalkDist * 10) \div WalkingSpeed,
         geometry |-> Some(<<>>), steps |-> <<>>, isEstimate |-> TRUE,
         elevationGain |-> netElev, viaWaypoint |-> None, from |-> loc]

\* destinations.map(d => ({ ...d, route: estimate }))
PlacesWithEstimates(dests, loc, elev) ==
    [i \in 1..Len(dests) |-> [dests[i] EXCEPT !.route = Some(EstimateRoute(loc, elev, dests[i]))]]

\* (d.route?.distance || Infinity) is Infinity: no route, or a distance of 0
KeyIsInfinity(d) == ~IsSome(d.route) \/ Get(d.route).distance = 0

\* the comparator of curated.sort returns a negative number for (a, b)
ComparesBefore(a, b) ==
    /\ ~KeyIsInfinity(a)
    /\ KeyIsInfinity(b) \/ Get(a.route).distance < Get(b.route).distance

\* x inserted into the sorted sequence s behind every entry it does not compare before
SortInsert(s, x) ==
    LET k == Cardinality({i \in 1..Len(s) : ~ComparesBefore(x, s[i])})
    IN  SubSeq(s, 1, k) \o <<x>> \o SubSeq(s, k + 1, Len(s))

RECURSIVE SortFrom(_, _, _)
SortFrom(list, i, acc) ==
    IF i > Len(list) THEN acc ELSE SortFrom(list, i + 1, SortInsert(acc, list[i]))

\* curated.sort((a, b) => (a.route?.distance || Infinity) - (b.route?.distance || Infinity))
SortCurated(list) == SortFrom(list, 1, <<>>)

\* curated.find(d => d.id === id)
FindById(list, id) ==
    LET hits == {i \in 1..Len(list) : list[i].id = id}
    IN  IF hits = {} THEN None
        ELSE Some(list[CHOOSE i \in hits : \A j \in hits : i <= j])

\* ReplaceById without the test of the id: every entry is replaced
ReplaceById_All(list, id, updated) == [i \in 1..Len(list) |-> updated]

\* prev.map(d => d.id === id ? updated : d)
ReplaceById(list, id, updated) ==
    [i \in 1..Len(list) |-> IF list[i].id = id THEN updated ELSE list[i]]

\* FilterByCategory applied to the current destination list instead of the seed list
FilterByCategory_CurrentList(list, type) == SelectSeq(destinations, LAMBDA p : p.category = type)

\* FEATURED_CAFES.filter(p => p.category === type)
FilterByCategory(list, type) == SelectSeq(list, LAMBDA p : p.category = type)

\* what curateDestinations can resolve with for a submitted list: the same entries in
\* any order, or the list with its first entry returned without a route
CurateResponses(payload) ==
    LET n == Len(payload)
    IN  { [i \in 1..n |-> payload[p[i]]] : p \in Permutations(1..n) }
        \cup { [i \in 1..n |-> IF i = 1 THEN [payload[i] EXCEPT !.route = None] ELSE payload[i]] }

----------------------------------------------------------------------------
(* State after construction *)

\* the history of a step: the handler, and its input as a number (an index into the
\* list or queue it acts on, a destination id, a coordinate) or a category
NoEvent == [op |-> "none", arg |-> 0, type |-> ""]

Event(op, arg, type) == [op |-> op, arg |-> arg, type |-> type]

Init ==
    /\ phase = "init"
    /\ hasError = FALSE
    /\ map = FALSE
    /\ seed \in Seeds
    /\ hasInitialLoaded = FALSE
    /\ geo = "idle"
    /\ elevPending = FALSE
    /\ userLocation = None
    /\ userElevation = None
    /\ lastCalcLocation = None
    /\ destinations = <<>>
    /\ selectedDestination = None
    /\ isLoading = FALSE
    /\ markers = [dests |-> <<>>, loc |-> None, elev |-> None]
    /\ curateReqs = <<>>
    /\ routeReqs = <<>>
    /\ detourReqs = <<>>
    /\ emphasized = {}
    /\ routeSource = FALSE
    /\ routeData = None
    /\ viaMarker = None
    /\ lastEvent = NoEvent
    /\ userEvents = 0
    /\ userSelected = None

\* Running without the test of hasError: the handlers of AppContent stay live behind
\* the error view
Running_IgnoresError == phase = "running"

\* the component is mounted and the error view is not shown
Running == phase = "running" /\ ~hasError

\* number of pending service requests
InFlight == Len(curateReqs) + Len(routeReqs) + Len(detourReqs)

\* a step made by a user action
UserStep == userEvents < MaxUserEvents /\ userEvents' = userEvents + 1

\* a step made by the environment: mount, geolocation, a service response
ServiceStep == UNCHANGED userEvents

\* s without its k-th element
RemoveAt(s, k) == SubSeq(s, 1, k - 1) \o SubSeq(s, k + 1, Len(s))

----------------------------------------------------------------------------
(* Effects *)

\* updateRoutes without its finally block: the loading flag is left as it is
UpdateRoutesFinally_Missing == isLoading

\* the loading flag after updateRoutes settled: finally { setIsLoading(false) }
UpdateRoutesFinally == FALSE

\* handleSelectDestination without its finally block: the loading flag is left as it is
SelectFinally_Missing == isLoading

\* the loading flag after handleSelectDestination settled: finally { setIsLoading(false) }
SelectFinally == FALSE

\* the marker effect, run for every new value of destinations: the markers are replaced
\* by one per destination, and their click handlers close over the handleSelectDestination
\* of that render, that is over its userLocation and userElevation
MarkerEffect(newDests, loc, elev) ==
    IF map /\ Len(newDests) # 0
    THEN [dests |-> newDests, loc |-> loc, elev |-> elev]
    ELSE markers

\* the guard of updateRoutes, in the render whose userLocation is loc
ShouldRecalc(loc) ==
    /\ IsSome(loc)
    /\ Len(destinations) > 0
    /\ ~isLoading
    /\ isLocChanged(loc, lastCalcLocation)

\* the updateRoutes effect up to its await, run for every new value of userLocation or
\* userElevation; loc and elev are the values of that render
UpdateRoutesEffect(loc, elev) ==
    IF ShouldRecalc(loc)
    THEN /\ InFlight < MaxInFlight
         /\ isLoading' = TRUE
         /\ lastCalcLocation' = loc
         /\ curateReqs' = Append(curateReqs,
                [payload  |-> PlacesWithEstimates(destinations, Get(loc), elev),
                 selected |-> IF IsSome(selectedDestination)
                              THEN Some(Get(selectedDestination).id) ELSE None])
    ELSE UNCHANGED <<isLoading, lastCalcLocation, curateReqs>>

\* the keys of markersRef for the markers mk
MarkerIds(mk) == {mk.dests[i].id : i \in 1..Len(mk.dests)}

\* the marker effect went past its guard for the list newDests and replaced the markers
MarkersRecreated(newDests) == map /\ Len(newDests) # 0

\* the emphasis of the markers after a render; the state updates of one handler or
\* continuation are rendered together.  The emphasis effect runs only when
\* selectedDestination changed (changed), after the marker effect of the same render:
\* it emphasizes the markers with the id of the selection newSel and no other.  Markers
\* that were replaced (recreated) without it running are created without emphasis.
EmphasisEffect(newMarkers, recreated, newSel, changed) ==
    emphasized' =
        IF changed
        THEN {id \in MarkerIds(newMarkers) : IsSome(newSel) /\ id = Get(newSel).id}
        ELSE IF recreated THEN {} ELSE emphasized

\* selectedDestination?.route?.geometry, None when one of the three is missing
RouteGeometry(sel) ==
    IF IsSome(sel) /\ IsSome(Get(sel).route) THEN Get(Get(sel).route).geometry ELSE None

\* selectedDestination?.route?.viaWaypoint, None when one of the three is missing
ViaWaypoint(sel) ==
    IF IsSome(sel) /\ IsSome(Get(sel).route) THEN Get(Get(sel).route).viaWaypoint ELSE None

\* RouteEffect without the removal of the via-waypoint marker: a marker that was
\* created stays where it is when the selected route has no via waypoint
RouteEffect_ViaMarkerKept(newSel, changed) ==
    IF changed /\ map
    THEN /\ routeData' = IF routeSource THEN RouteGeometry(newSel) ELSE routeData
         /\ viaMarker' = IF IsSome(ViaWaypoint(newSel)) THEN ViaWaypoint(newSel) ELSE viaMarker
    ELSE UNCHANGED <<routeData, viaMarker>>

\* the route effect, run when selectedDestination changed (changed) to newSel: the
\* source, if the map has it yet, gets the geometry or an empty collection; the
\* via-waypoint marker is created, moved or removed
RouteEffect(newSel, changed) ==
    IF changed /\ map
    THEN /\ routeData' = IF routeSource THEN RouteGeometry(newSel) ELSE routeData
         /\ viaMarker' = ViaWaypoint(newSel)
    ELSE UNCHANGED <<routeData, viaMarker>>

----------------------------------------------------------------------------
(* Mount *)

\* the effects of the first commit and the render they schedule: the seed list is loaded,
\* the map is created, the geolocation query is issued, the markers of the seed list are
\* created in a render that has no user location yet
MountOk ==
    /\ phase = "init"
    /\ phase' = "running"
    /\ map' = TRUE
    /\ hasInitialLoaded' = TRUE
    /\ destinations' = seed
    /\ markers' = IF Len(seed) # 0 THEN [dests |-> seed, loc |-> None, elev |-> None] ELSE markers
    /\ geo' = "pending"
    /\ lastEvent' = Event("mount", 0, "")
    /\ ServiceStep
    /\ UNCHANGED <<hasError, seed, elevPending, userLocation, userElevation, lastCalcLocation,
                   selectedDestination, isLoading, curateReqs, routeReqs, detourReqs>>
    /\ UNCHANGED <<emphasized, routeSource, routeData, viaMarker, userSelected>>

\* new maplibregl.Map throws: the effect re-throws and the ErrorBoundary takes over
MountFail ==
    /\ phase = "init"
    /\ phase' = "running"
    /\ hasError' = TRUE
    /\ lastEvent' = Event("mountFail", 0, "")
    /\ ServiceStep
    /\ UNCHANGED <<map, seed, hasInitialLoaded, geo, elevPending, userLocation, userElevation,
                   lastCalcLocation, destinations, selectedDestination, isLoading, markers,
                   curateReqs, routeReqs, detourReqs>>
    /\ UNCHANGED <<emphasized, routeSource, routeData, viaMarker, userSelected>>

\* the map fires 'load': the handler adds the 'route' source with an empty collection,
\* and its two line layers
MapLoad ==
    /\ Running
    /\ map
    /\ ~routeSource
    /\ routeSource' = TRUE
    /\ routeData' = None
    /\ lastEvent' = Event("mapLoad", 0, "")
    /\ ServiceStep
    /\ UNCHANGED <<phase, hasError, map, seed, hasInitialLoaded, geo, elevPending,
                   userLocation, userElevation, lastCalcLocation, destinations,
                   selectedDestination, isLoading, markers, curateReqs, routeReqs,
                   detourReqs, emphasized, viaMarker, userSelected>>

----------------------------------------------------------------------------
(* User location and elevation *)

\* getCurrentPosition succeeds with coords
GeoSuccess(coords) ==
    /\ Running
    /\ geo = "pending"
    /\ geo' = "done"
    /\ userLocation' = Some(coords)
    /\ elevPending' = TRUE
    /\ UpdateRoutesEffect(Some(coords), userElevation)
    /\ lastEvent' = Event("geo", coords, "")
    /\ ServiceStep
    /\ UNCHANGED <<phase, hasError, map, seed, hasInitialLoaded, userElevation, destinations,
                   selectedDestination, markers, routeReqs, detourReqs>>
    /\ UNCHANGED <<emphasized, routeSource, routeData, viaMarker, userSelected>>

\* getCurrentPosition fails: the error is logged
GeoError ==
    /\ Running
    /\ geo = "pending"
    /\ geo' = "failed"
    /\ lastEvent' = Event("geoError", 0, "")
    /\ ServiceStep
    /\ UNCHANGED <<phase, hasError, map, seed, hasInitialLoaded, elevPending, userLocation,
                   userElevation, lastCalcLocation, destinations, selectedDestination,
                   isLoading, markers, curateReqs, routeReqs, detourReqs>>
    /\ UNCHANGED <<emphasized, routeSource, routeData, viaMarker, userSelected>>

\* fetchPointElevation resolves with a number
ElevationResolve(ele) ==
    /\ Running
    /\ elevPending
    /\ elevPending' = FALSE
    /\ userElevation' = Some(ele)
    /\ UpdateRoutesEffect(userLocation, Some(ele))
    /\ lastEvent' = Event("elevation", ele, "")
    /\ ServiceStep
    /\ UNCHANGED <<phase, hasError, map, seed, hasInitialLoaded, geo, userLocation,
                   destinations, selectedDestination, markers, routeReqs, detourReqs>>
    /\ UNCHANGED <<emphasized, routeSource, routeData, viaMarker, userSelected>>

\* fetchPointElevation resolves with null, or rejects
ElevationNone ==
    /\ Running
    /\ elevPending
    /\ elevPending' = FALSE
    /\ lastEvent' = Event("elevationNone", 0, "")
    /\ ServiceStep
    /\ UNCHANGED <<phase, hasError, map, seed, hasInitialLoaded, geo, userLocation,
                   userElevation, lastCalcLocation, destinations, selectedDestination,
                   isLoading, markers, curateReqs, routeReqs, detourReqs>>
    /\ UNCHANGED <<emphasized, routeSource, routeData, viaMarker, userSelected>>

\* dragend of the user marker, which exists once the map and a user location do
DragEnd(coords) ==
    /\ Running
    /\ map
    /\ IsSome(userLocation)
    /\ userLocation' = Some(coords)
    /\ UpdateRoutesEffect(Some(coords), userElevation)
    /\ lastEvent' = Event("drag", coords, "")
    /\ UserStep
    /\ UNCHANGED <<phase, hasError, map, seed, hasInitialLoaded, geo, elevPending,
                   userElevation, destinations, selectedDestination, markers, routeReqs,
                   detourReqs>>
    /\ UNCHANGED <<emphasized, routeSource, routeData, viaMarker, userSelected>>

----------------------------------------------------------------------------
(* Selection *)

\* NeedsRoute without the isEstimate test: only a missing route is fetched
NeedsRoute_AbsentOnly(destination, loc) == IsSome(loc) /\ ~IsSome(destination.route)

\* NeedsRoute without the test of the route: every selection fetches
NeedsRoute_Always(destination, loc) == IsSome(loc)

\* userLocation && (!destination.route || destination.route.isEstimate), with the
\* userLocation of the closure
NeedsRoute(destination, loc) ==
    /\ IsSome(loc)
    /\ ~IsSome(destination.route) \/ Get(destination.route).isEstimate

\* handleSelectDestination(destination) up to its await, in the closure that holds
\* user location loc and user elevation elev (how and i are recorded in the history)
SelectDestination(destination, loc, elev, how, i) ==
    /\ selectedDestination' = Some(destination)
    /\ IF NeedsRoute(destination, loc)
       THEN /\ InFlight < MaxInFlight
            /\ isLoading' = TRUE
            /\ routeReqs' = Append(routeReqs,
                   [destination |-> destination, origin |-> Get(loc), elevation |-> elev])
       ELSE UNCHANGED <<isLoading, routeReqs>>
    /\ lastEvent' = Event(how, i, "")
    /\ UserStep
    /\ UNCHANGED <<phase, hasError, map, seed, hasInitialLoaded, geo, elevPending,
                   userLocation, userElevation, lastCalcLocation, destinations, markers,
                   curateReqs, detourReqs>>
    /\ EmphasisEffect(markers, FALSE, Some(destination), Some(destination) # selectedDestination)
    /\ RouteEffect(Some(destination), Some(destination) # selectedDestination)
    /\ userSelected' = Some(destination.id)
    /\ UNCHANGED routeSource

\* the sidebar calls onSelect, the handleSelectDestination of the current render, with
\* an entry of the destination list
SidebarSelect(i) ==
    /\ Running
    /\ i \in 1..Len(destinations)
    /\ SelectDestination(destinations[i], userLocation, userElevation, "select", i)

\* a click on a destination marker calls the handleSelectDestination the marker effect
\* closed over, with the destination the marker was created for
MarkerClick(i) ==
    /\ Running
    /\ i \in 1..Len(markers.dests)
    /\ SelectDestination(markers.dests[i], markers.loc, markers.elev, "markerClick", i)

\* ApplyRoute without setSelectedDestination(updated): only the list entry is written
ApplyRoute_ListOnly(destination, route) ==
    LET updated == [destination EXCEPT !.route = Some(route)]
        newDests == ReplaceById(destinations, destination.id, updated)
    IN  /\ selectedDestination' = selectedDestination
        /\ destinations' = newDests
        /\ markers' = MarkerEffect(newDests, userLocation, userElevation)
        /\ EmphasisEffect(MarkerEffect(newDests, userLocation, userElevation),
                          MarkersRecreated(newDests), selectedDestination, FALSE)
        /\ RouteEffect(selectedDestination, FALSE)

\* ApplyRoute with a sequencing check: a response for a destination that is not the
\* selected one any more leaves the selection alone
ApplyRoute_DiscardStale(destination, route) ==
    LET updated  == [destination EXCEPT !.route = Some(route)]
        newDests == ReplaceById(destinations, destination.id, updated)
        current  == IsSome(selectedDestination) /\ Get(selectedDestination).id = destination.id
        newSel   == IF current THEN Some(updated) ELSE selectedDestination
    IN  /\ selectedDestination' = newSel
        /\ destinations' = newDests
        /\ markers' = MarkerEffect(newDests, userLocation, userElevation)
        /\ EmphasisEffect(MarkerEffect(newDests, userLocation, userElevation),
                          MarkersRecreated(newDests), newSel, current)
        /\ RouteEffect(newSel, current)

\* the route state a successful routing response writes: the selection and the list
\* entry with the id of the destination the request was made for
ApplyRoute(destination, route) ==
    LET updated == [destination EXCEPT !.route = Some(route)]
        newDests == ReplaceById(destinations, destination.id, updated)
    IN  /\ selectedDestination' = Some(updated)
        /\ destinations' = newDests
        /\ markers' = MarkerEffect(newDests, userLocation, userElevation)
        /\ EmphasisEffect(MarkerEffect(newDests, userLocation, userElevation),
                          MarkersRecreated(newDests), Some(updated), TRUE)
        /\ RouteEffect(Some(updated), TRUE)

\* getWalkingRoute of the k-th pending request resolves with a route
RouteResolve(k, r) ==
    /\ Running
    /\ k \in 1..Len(routeReqs)
    /\ LET req == routeReqs[k]
       IN  /\ ApplyRoute(req.destination, [r EXCEPT !.from = req.origin])
           /\ lastEvent' = Event("routeResolve", k, "")
    /\ isLoading' = SelectFinally
    /\ routeReqs' = RemoveAt(routeReqs, k)
    /\ ServiceStep
    /\ UNCHANGED <<phase, hasError, map, seed, hasInitialLoaded, geo, elevPending,
                   userLocation, userElevation, lastCalcLocation, curateReqs, detourReqs>>
    /\ UNCHANGED <<routeSource, userSelected>>

\* RouteFail with setIsLoading(false) after the await in the try block instead of in a
\* finally block: a rejection leaves the loading flag as it is
RouteFail_FlagKept(k) ==
    /\ Running
    /\ k \in 1..Len(routeReqs)
    /\ routeReqs' = RemoveAt(routeReqs, k)
    /\ lastEvent' = Event("routeFail", k, "")
    /\ ServiceStep
    /\ UNCHANGED <<phase, hasError, map, seed, hasInitialLoaded, geo, elevPending,
                   userLocation, userElevation, lastCalcLocation, destinations,
                   selectedDestination, isLoading, markers, curateReqs, detourReqs>>
    /\ UNCHANGED <<emphasized, routeSource, routeData, viaMarker, userSelected>>

\* getWalkingRoute of the k-th pending request rejects or resolves with no route: only
\* the finally block runs
RouteFail(k) ==
    /\ Running
    /\ k \in 1..Len(routeReqs)
    /\ isLoading' = SelectFinally
    /\ routeReqs' = RemoveAt(routeReqs, k)
    /\ lastEvent' = Event("routeFail", k, "")
    /\ ServiceStep
    /\ UNCHANGED <<phase, hasError, map, seed, hasInitialLoaded, geo, elevPending,
                   userLocation, userElevation, lastCalcLocation, destinations,
                   selectedDestination, markers, curateReqs, detourReqs>>
    /\ UNCHANGED <<emphasized, routeSource, routeData, viaMarker, userSelected>>

----------------------------------------------------------------------------
(* Detour *)

\* handleUpdateRoute without `if (!userLocation) return`: the request is issued without
\* a user location (origin 0 stands for the missing one)
UpdateRoute_NoLocationGuard(destId) ==
    /\ Running
    /\ lastEvent' = Event("updateRoute", destId, "")
    /\ UserStep
    /\ IF IsSome(FindById(destinations, destId))
       THEN /\ InFlight < MaxInFlight
            /\ detourReqs' = Append(detourReqs,
                   [dest |-> Get(FindById(destinations, destId)),
                    origin |-> IF IsSome(userLocation) THEN Get(userLocation) ELSE 0,
                    elevation |-> userElevation])
       ELSE UNCHANGED detourReqs
    /\ UNCHANGED <<phase, hasError, map, seed, hasInitialLoaded, geo, elevPending,
                   userLocation, userElevation, lastCalcLocation, destinations,
                   selectedDestination, isLoading, markers, curateReqs, routeReqs>>
    /\ UNCHANGED <<emphasized, routeSource, routeData, viaMarker, userSelected>>

\* handleUpdateRoute(destId, ...) up to its await
UpdateRoute(destId) ==
    /\ Running
    /\ lastEvent' = Event("updateRoute", destId, "")
    /\ UserStep
    /\ IF IsSome(userLocation) /\ IsSome(FindById(destinations, destId))
       THEN /\ InFlight < MaxInFlight
            /\ detourReqs' = Append(detourReqs,
                   [dest |-> Get(FindById(destinations, destId)), origin |-> Get(userLocation),
                    elevation |-> userElevation])
       ELSE UNCHANGED detourReqs
    /\ UNCHANGED <<phase, hasError, map, seed, hasInitialLoaded, geo, elevPending,
                   userLocation, userElevation, lastCalcLocation, destinations,
                   selectedDestination, isLoading, markers, curateReqs, routeReqs>>
    /\ UNCHANGED <<emphasized, routeSource, routeData, viaMarker, userSelected>>

\* getDetourRoute of the k-th pending request resolves with a route
DetourResolve(k, r) ==
    /\ Running
    /\ k \in 1..Len(detourReqs)
    /\ LET req == detourReqs[k]
       IN  /\ ApplyRoute(req.dest, [r EXCEPT !.from = req.origin])
           /\ lastEvent' = Event("detourResolve", k, "")
    /\ detourReqs' = RemoveAt(detourReqs, k)
    /\ ServiceStep
    /\ UNCHANGED <<phase, hasError, map, seed, hasInitialLoaded, geo, elevPending,
                   userLocation, userElevation, lastCalcLocation, isLoading, curateReqs,
                   routeReqs>>
    /\ UNCHANGED <<routeSource, userSelected>>

\* getDetourRoute of the k-th pending request rejects or resolves with no route
DetourFail(k) ==
    /\ Running
    /\ k \in 1..Len(detourReqs)
    /\ detourReqs' = RemoveAt(detourReqs, k)
    /\ lastEvent' = Event("detourFail", k, "")
    /\ ServiceStep
    /\ UNCHANGED <<phase, hasError, map, seed, hasInitialLoaded, geo, elevPending,
                   userLocation, userElevation, lastCalcLocation, destinations,
                   selectedDestination, isLoading, markers, curateReqs, routeReqs>>
    /\ UNCHANGED <<emphasized, routeSource, routeData, viaMarker, userSelected>>

----------------------------------------------------------------------------
(* Curation responses *)

\* the curation response sets the selection: an entry was selected in the render that
\* started the request, and the sorted list has an entry with its id
SelectionResolved(curated, selected) ==
    IsSome(selected) /\ IsSome(FindById(curated, Get(selected)))

\* the selection after a curation response: re-resolved in the sorted list by the id
\* that was selected in the render that started the request
ResolveSelection(curated, selected) ==
    IF IsSome(selected) /\ IsSome(FindById(curated, Get(selected)))
    THEN FindById(curated, Get(selected))
    ELSE selectedDestination

\* curateDestinations of the k-th pending request resolves with resp
CurateResolve(k, resp) ==
    /\ Running
    /\ k \in 1..Len(curateReqs)
    /\ resp \in CurateResponses(curateReqs[k].payload)
    /\ LET curated == SortCurated(resp)
       IN  /\ destinations' = curated
           /\ markers' = MarkerEffect(curated, userLocation, userElevation)
           /\ selectedDestination' = ResolveSelection(curated, curateReqs[k].selected)
           /\ EmphasisEffect(MarkerEffect(curated, userLocation, userElevation),
                             MarkersRecreated(curated),
                             ResolveSelection(curated, curateReqs[k].selected),
                             SelectionResolved(curated, curateReqs[k].selected))
           /\ RouteEffect(ResolveSelection(curated, curateReqs[k].selected),
                          SelectionResolved(curated, curateReqs[k].selected))
    /\ isLoading' = UpdateRoutesFinally
    /\ curateReqs' = RemoveAt(curateReqs, k)
    /\ lastEvent' = Event("curateResolve", k, "")
    /\ ServiceStep
    /\ UNCHANGED <<phase, hasError, map, seed, hasInitialLoaded, geo, elevPending,
                   userLocation, userElevation, lastCalcLocation, routeReqs, detourReqs>>
    /\ UNCHANGED <<routeSource, userSelected>>

\* curateDestinations of the k-th pending request rejects: logged, then the finally block
CurateReject(k) ==
    /\ Running
    /\ k \in 1..Len(curateReqs)
    /\ isLoading' = UpdateRoutesFinally
    /\ curateReqs' = RemoveAt(curateReqs, k)
    /\ lastEvent' = Event("curateReject", k, "")
    /\ ServiceStep
    /\ UNCHANGED <<phase, hasError, map, seed, hasInitialLoaded, geo, elevPending,
                   userLocation, userElevation, lastCalcLocation, destinations,
                   selectedDestination, markers, routeReqs, detourReqs>>
    /\ UNCHANGED <<emphasized, routeSource, routeData, viaMarker, userSelected>>

----------------------------------------------------------------------------
(* Category filter and back *)

\* handleCategoryFilter(type)
CategoryFilter(type) ==
    /\ Running
    /\ LET filtered == FilterByCategory(seed, type)
       IN  /\ destinations' = filtered
           /\ markers' = MarkerEffect(filtered, userLocation, userElevation)
           /\ EmphasisEffect(MarkerEffect(filtered, userLocation, userElevation),
                             MarkersRecreated(filtered), None, IsSome(selectedDestination))
    /\ selectedDestination' = None
    /\ lastEvent' = Event("filter", 0, type)
    /\ UserStep
    /\ UNCHANGED <<phase, hasError, map, seed, hasInitialLoaded, geo, elevPending,
                   userLocation, userElevation, lastCalcLocation, isLoading, curateReqs,
                   routeReqs, detourReqs>>
    /\ RouteEffect(None, IsSome(selectedDestination))
    /\ userSelected' = None
    /\ UNCHANGED routeSource

\* handleBack
Back ==
    /\ Running
    /\ selectedDestination' = None
    /\ lastEvent' = Event("back", 0, "")
    /\ UserStep
    /\ UNCHANGED <<phase, hasError, map, seed, hasInitialLoaded, geo, elevPending,
                   userLocation, userElevation, lastCalcLocation, destinations, isLoading,
                   markers, curateReqs, routeReqs, detourReqs>>
    /\ EmphasisEffect(markers, FALSE, None, IsSome(selectedDestination))
    /\ RouteEffect(None, IsSome(selectedDestination))
    /\ userSelected' = None
    /\ UNCHANGED routeSource

----------------------------------------------------------------------------
(* Specification *)

Next ==
    \/ MountOk
    \/ MountFail
    \/ MapLoad
    \/ \E coords \in GpsLocs : GeoSuccess(coords)
    \/ GeoError
    \/ \E ele \in Elevations : ElevationResolve(ele)
    \/ ElevationNone
    \/ \E coords \in UserLocs : DragEnd(coords)
    \/ \E i \in 1..Len(destinations) : SidebarSelect(i)
    \/ \E i \in 1..Len(markers.dests) : MarkerClick(i)
    \/ \E k \in 1..Len(routeReqs), r \in WalkingRoutes : RouteResolve(k, r)
    \/ \E k \in 1..Len(routeReqs) : RouteFail(k)
    \/ \E id \in DetourIds : UpdateRoute(id)
    \/ \E k \in 1..Len(detourReqs), r \in DetourRoutes : DetourResolve(k, r)
    \/ \E k \in 1..Len(detourReqs) : DetourFail(k)
    \/ \E k \in 1..Len(curateReqs) : \E resp \in CurateResponses(curateReqs[k].payload) :
           CurateResolve(k, resp)
    \/ \E k \in 1..Len(curateReqs) : CurateReject(k)
    \/ \E type \in Categories : CategoryFilter(type)
    \/ Back

Spec == Init /\ [][Next]_vars

----------------------------------------------------------------------------
(* Claims C1 - C10 *)

\* the step just made was made by one of the handlers ops
StepOf(ops) == lastEvent'.op \in ops

\* the step started a curation request
CurationStarted == Len(curateReqs') > Len(curateReqs)

\* destination d carries a route with a distance that sorts as a number
HasRoute(d) == IsSome(d.route)

\* destination d carries a route that is server-confirmed
HasRealRoute(d) == IsSome(d.route) /\ ~Get(d.route).isEstimate

\* C1 (as claimed): at most one curateDestinations request is in flight in every
\* reachable state, so no re-curation starts while an earlier one has not settled.
C1_OneCurationInFlight == Len(curateReqs) <= 1

\* C2: a change of the user location or of the user elevation starts a curation only
\* when no location was computed before or the new user location is more than 20 away
\* from lastCalcLocation; when it is 20 or less away, no curation request is started and
\* the destination list and lastCalcLocation stay as they were.
C2_RecurationOnlyBeyondThreshold ==
    [][ StepOf({"geo", "drag", "elevation"}) =>
          /\ CurationStarted =>
                \/ ~IsSome(lastCalcLocation)
                \/ getDistance(Get(userLocation'), Get(lastCalcLocation)) > 20
          /\ (IsSome(lastCalcLocation)
                /\ getDistance(Get(userLocation'), Get(lastCalcLocation)) <= 20) =>
                /\ curateReqs' = curateReqs
                /\ destinations' = destinations
                /\ lastCalcLocation' = lastCalcLocation ]_vars

\* C2 witness: the user marker was dragged exactly 20 away from the last computed
\* location while nothing was loading, and no curation request was started.
C2_Witness ==
    /\ lastEvent.op = "drag"
    /\ IsSome(lastCalcLocation)
    /\ getDistance(Get(userLocation), Get(lastCalcLocation)) = 20
    /\ ~isLoading
    /\ curateReqs = <<>>

\* C3 (as claimed): right after a successful curation response the destination list is
\* in ascending order of route.distance, entries without a route distance behind every
\* entry that has one, a distance of 0 being a distance like any other.
C3_SortedAfterCuration ==
    lastEvent.op = "curateResolve" =>
        \A i, j \in 1..Len(destinations) :
            (i < j /\ HasRoute(destinations[j])) =>
                /\ HasRoute(destinations[i])
                /\ Get(destinations[i].route).distance <= Get(destinations[j].route).distance

\* the destination a selection step was called with: an entry of the list (sidebar) or
\* the destination a marker was created for (marker click)
SelectedArg ==
    IF lastEvent'.op = "select" THEN destinations[lastEvent'.arg]
    ELSE markers.dests[lastEvent'.arg]

\* the user location and elevation held by the handler a selection step ran
HandlerLocation == IF lastEvent'.op = "select" THEN userLocation ELSE markers.loc

HandlerElevation == IF lastEvent'.op = "select" THEN userElevation ELSE markers.elev

\* a step by which the selected destination comes to carry a server-confirmed route is a
\* routing (or detour) response, or the selection of a destination that carries it already
RealRouteOnlyFromResponse ==
    (/\ IsSome(selectedDestination')
     /\ HasRealRoute(Get(selectedDestination'))
     /\ selectedDestination' # selectedDestination) =>
        \/ StepOf({"routeResolve", "detourResolve"})
        \/ StepOf({"select", "markerClick"}) /\ HasRealRoute(SelectedArg)

\* C4 (as claimed): every selection of a destination whose route is absent or an estimate
\* issues exactly one getWalkingRoute request, and the selected destination gets a
\* non-estimate route only after a request returned one.
C4_EverySelectionIssuesRequest ==
    [][ /\ (StepOf({"select", "markerClick"}) /\ ~HasRealRoute(SelectedArg)) =>
              Len(routeReqs') = Len(routeReqs) + 1
        /\ RealRouteOnlyFromResponse ]_vars

\* C4 (amended): a selection of a destination whose route is absent or an estimate, made
\* through a handler that holds a user location, issues exactly one getWalkingRoute
\* request, for that destination and from that location; a handler that holds no user
\* location issues none; the selection carries the destination as passed, and gets a
\* non-estimate route only after a request returned one.
C4_SelectionWithLocationIssuesRequest ==
    [][ /\ StepOf({"select", "markerClick"}) =>
              /\ selectedDestination' = Some(SelectedArg)
              /\ IF ~HasRealRoute(SelectedArg) /\ IsSome(HandlerLocation)
                 THEN routeReqs' = Append(routeReqs,
                          [destination |-> SelectedArg, origin |-> Get(HandlerLocation),
                           elevation |-> HandlerElevation])
                 ELSE routeReqs' = routeReqs
        /\ RealRouteOnlyFromResponse ]_vars

\* C4 witness: a destination carrying an estimate was just selected and its routing
\* request is pending.
C4_Witness ==
    /\ lastEvent.op \in {"select", "markerClick"}
    /\ IsSome(selectedDestination)
    /\ IsSome(Get(selectedDestination).route)
    /\ Get(Get(selectedDestination).route).isEstimate
    /\ Len(routeReqs) = 1
    /\ routeReqs[1].destination = Get(selectedDestination)

\* C5: selecting a destination that carries a non-estimate route issues no routing
\* request; the selection becomes that destination, and the destination list, the loading
\* flag and the destination's route are unchanged.
C5_RealRouteSelectionIssuesNothing ==
    [][ (StepOf({"select", "markerClick"}) /\ HasRealRoute(SelectedArg)) =>
          /\ routeReqs' = routeReqs
          /\ curateReqs' = curateReqs
          /\ detourReqs' = detourReqs
          /\ selectedDestination' = Some(SelectedArg)
          /\ destinations' = destinations
          /\ isLoading' = isLoading ]_vars

\* C5 witness: a destination with a non-estimate route was just selected and nothing is
\* pending.
C5_Witness ==
    /\ lastEvent.op \in {"select", "markerClick"}
    /\ IsSome(selectedDestination)
    /\ HasRealRoute(Get(selectedDestination))
    /\ routeReqs = <<>>
    /\ ~isLoading

\* C6: when the routing request of a selection rejects or returns no route, the selected
\* destination (and so its route) and the destination list are left as they are, the
\* loading flag becomes false, the error view is not entered, and no request is issued.
C6_RouteFailureKeepsState ==
    [][ StepOf({"routeFail"}) =>
          /\ selectedDestination' = selectedDestination
          /\ destinations' = destinations
          /\ isLoading' = FALSE
          /\ hasError' = FALSE
          /\ routeReqs' = RemoveAt(routeReqs, lastEvent'.arg)
          /\ curateReqs' = curateReqs
          /\ detourReqs' = detourReqs ]_vars

\* C6 witness: a routing request just failed while the selected destination carries an
\* estimate.
C6_Witness ==
    /\ lastEvent.op = "routeFail"
    /\ IsSome(selectedDestination)
    /\ IsSome(Get(selectedDestination).route)
    /\ Get(Get(selectedDestination).route).isEstimate
    /\ routeReqs = <<>>

\* C7: when a curation request fails, the destination list and the selection are what
\* they were before the failure, the loading flag becomes false, and no curation (or other
\* request) is started: lastCalcLocation stays, so the same location does not retry.
C7_CurationFailureKeepsState ==
    [][ StepOf({"curateReject"}) =>
          /\ destinations' = destinations
          /\ selectedDestination' = selectedDestination
          /\ isLoading' = FALSE
          /\ lastCalcLocation' = lastCalcLocation
          /\ curateReqs' = RemoveAt(curateReqs, lastEvent'.arg)
          /\ routeReqs' = routeReqs
          /\ detourReqs' = detourReqs ]_vars

\* C7 witness: a curation request just failed while a destination is selected.
C7_Witness ==
    /\ lastEvent.op = "curateReject"
    /\ IsSome(selectedDestination)
    /\ destinations # <<>>
    /\ curateReqs = <<>>

\* C8: right after handleCategoryFilter(type) the destination list is the seed entries
\* of category type, in seed order and as they are in the seed (so without the routes of
\* earlier responses), and nothing is selected.
C8_FilterYieldsSeedOfCategory ==
    [][ StepOf({"filter"}) =>
          LET type == lastEvent'.type
              idx  == {i \in 1..Len(seed) : seed[i].category = type}
              \* the seed index of the j-th entry of category type
              nth(j) == CHOOSE i \in idx : Cardinality({h \in idx : h <= i}) = j
          IN  /\ type \in {"cafe", "bar"}
              /\ Len(destinations') = Cardinality(idx)
              /\ \A j \in 1..Len(destinations') : destinations'[j] = seed[nth(j)]
              /\ selectedDestination' = None ]_vars

\* C8 witness: a filter was applied after a curation had run, and it kept two entries.
C8_Witness ==
    /\ lastEvent.op = "filter"
    /\ IsSome(lastCalcLocation)
    /\ curateReqs = <<>>
    /\ Len(destinations) = 2

\* C9: the list submitted to the curation client has, for every destination D of the
\* list and the user position U of that moment, distance = straight-line(U, D) * 1.35
\* and duration = distance / 1.4 (distances in 1/100 unit, durations in 1/100 second,
\* rounded down), isEstimate set, and empty geometry and steps.
C9_EstimatesSubmitted ==
    [][ CurationStarted =>
          LET payload == curateReqs'[Len(curateReqs')].payload
              U       == Get(userLocation')
          IN  /\ Len(payload) = Len(destinations)
              /\ \A i \in 1..Len(payload) :
                    LET D == destinations[i]
                        r == Get(payload[i].route)
                        straight == IF U >= D.coordinates THEN U - D.coordinates
                                    ELSE D.coordinates - U
                    IN  /\ payload[i].id = D.id
                        /\ IsSome(payload[i].route)
                        /\ r.distance = straight * 135
                        /\ r.duration * 14 <= r.distance * 10
                        /\ r.distance * 10 < (r.duration + 1) * 14
                        /\ r.isEstimate
                        /\ r.geometry = Some(<<>>)
                        /\ r.steps = <<>> ]_vars

\* C9 witness: a curation request is pending whose list holds an estimate of 21 * 1.35.
C9_Witness ==
    /\ Len(curateReqs) = 1
    /\ \E i \in 1..Len(curateReqs[1].payload) :
          Get(curateReqs[1].payload[i].route).distance = 2835

\* C10 (as claimed): no step replaces a destination's non-estimate route by an estimate,
\* or removes it, while the user location is within 20 of the location the route was
\* requested from.
C10_RealRouteKeptNearOrigin ==
    [][ \A i \in 1..Len(destinations) : \A j \in 1..Len(destinations') :
          (/\ HasRealRoute(destinations[i])
           /\ destinations'[j].id = destinations[i].id
           /\ IsSome(userLocation')
           /\ getDistance(Get(userLocation'), Get(destinations[i].route).from) <= 20) =>
              HasRealRoute(destinations'[j]) ]_vars

----------------------------------------------------------------------------
(* Claims C11 - C20 *)

\* no request, geolocation query or elevation lookup is pending: only a user action can
\* change the state
Quiescent == phase = "running" /\ geo # "pending" /\ ~elevPending /\ InFlight = 0

\* destination d carries a server-confirmed route computed from a location that is more
\* than the threshold away from the user's location
StaleRealRoute(d) ==
    /\ HasRealRoute(d)
    /\ IsSome(userLocation)
    /\ getDistance(Get(userLocation), Get(d.route).from) > RecalcThreshold

\* C11 (as claimed): after the user location moved more than 20 units, the routes of all
\* destinations are recomputed as estimates from the new location, so that in the end,
\* when no request is pending any more, no destination carries a non-estimate route that
\* was computed from the old location.
C11_NoStaleRouteOnceSettled ==
    Quiescent => \A i \in 1..Len(destinations) : ~StaleRealRoute(destinations[i])

\* C12: when the routing request of a selection of destination D succeeds with route R,
\* the selected destination becomes D with route R, the list entry with D's id becomes D
\* with route R, and every other entry and the order of the list stay as they are.
C12_RouteSuccessWritesOneEntry ==
    [][ StepOf({"routeResolve"}) =>
          LET req == routeReqs[lastEvent'.arg]
              D   == req.destination
          IN  \E r \in WalkingRoutes :
                LET R       == [r EXCEPT !.from = req.origin]
                    updated == [D EXCEPT !.route = Some(R)]
                IN  /\ selectedDestination' = Some(updated)
                    /\ Len(destinations') = Len(destinations)
                    /\ \A i \in 1..Len(destinations) :
                          destinations'[i] =
                              IF destinations[i].id = D.id THEN updated ELSE destinations[i] ]_vars

\* C12 witness: a routing response was just applied to a list of several entries: the
\* selected destination and its list entry carry the server-confirmed route, and another
\* entry still carries its estimate.
C12_Witness ==
    /\ lastEvent.op = "routeResolve"
    /\ IsSome(selectedDestination)
    /\ HasRealRoute(Get(selectedDestination))
    /\ \E i, j \in 1..Len(destinations) :
          /\ destinations[i] = Get(selectedDestination)
          /\ destinations[j].id # Get(selectedDestination).id
          /\ HasRoute(destinations[j])
          /\ Get(destinations[j].route).isEstimate

\* C13 (as claimed): right after the routing request of a selection succeeded, the
\* destination list is in ascending order of route distance, the returned distance being
\* the distance of the entry it was written to: of two entries that carry a route, the
\* one with the larger distance is not before the other.
C13_SortedAfterRouteSuccess ==
    lastEvent.op = "routeResolve" =>
        \A i, j \in 1..Len(destinations) :
            (i < j /\ HasRoute(destinations[i]) /\ HasRoute(destinations[j])) =>
                Get(destinations[i].route).distance <= Get(destinations[j].route).distance

\* C14 (as claimed): right after a successful curation response, the selected
\* destination is the entry of the refreshed list that has the id selected at that
\* moment, whenever the list has such an entry.
C14_SelectionIsListEntryAfterCuration ==
    ( /\ lastEvent.op = "curateResolve"
      /\ IsSome(selectedDestination)
      /\ IsSome(FindById(destinations, Get(selectedDestination).id)) )
    => selectedDestination = FindById(destinations, Get(selectedDestination).id)

\* C15: handleUpdateRoute(destId) issues exactly one detour request when the user
\* location is known and the list has an entry with destId, and none otherwise, and
\* leaves the list and the selection alone; when the request succeeds with route R the
\* selection becomes that destination with route R as its whole route, the list entry
\* with destId becomes the same, every other entry and the order stay; when the request
\* rejects or returns nothing, the list and the selection stay as they are.
C15_DetourWritesOneEntry ==
    [][ /\ StepOf({"updateRoute"}) =>
             /\ destinations' = destinations
             /\ selectedDestination' = selectedDestination
             /\ routeReqs' = routeReqs
             /\ curateReqs' = curateReqs
             /\ LET dest == FindById(destinations, lastEvent'.arg)
                IN  IF IsSome(userLocation) /\ IsSome(dest)
                    THEN detourReqs' = Append(detourReqs,
                             [dest |-> Get(dest), origin |-> Get(userLocation),
                              elevation |-> userElevation])
                    ELSE detourReqs' = detourReqs
        /\ StepOf({"detourResolve"}) =>
             LET req == detourReqs[lastEvent'.arg]
             IN  \E r \in DetourRoutes :
                   LET R       == [r EXCEPT !.from = req.origin]
                       updated == [req.dest EXCEPT !.route = Some(R)]
                   IN  /\ selectedDestination' = Some(updated)
                       /\ Len(destinations') = Len(destinations)
                       /\ \A i \in 1..Len(destinations) :
                             destinations'[i] =
                                 IF destinations[i].id = req.dest.id
                                 THEN updated ELSE destinations[i]
        /\ StepOf({"detourFail"}) =>
             /\ destinations' = destinations
             /\ selectedDestination' = selectedDestination ]_vars

\* C15 witness: a detour response was just applied: the selected destination and its
\* list entry carry the detour route with its via waypoint, and another entry of the
\* list carries a route without one.
C15_Witness ==
    /\ lastEvent.op = "detourResolve"
    /\ IsSome(selectedDestination)
    /\ HasRealRoute(Get(selectedDestination))
    /\ IsSome(Get(Get(selectedDestination).route).viaWaypoint)
    /\ \E i, j \in 1..Len(destinations) :
          /\ destinations[i] = Get(selectedDestination)
          /\ destinations[j].id # Get(selectedDestination).id
          /\ HasRoute(destinations[j])
          /\ ~IsSome(Get(destinations[j].route).viaWaypoint)

\* C16: a routing response is applied whatever was selected since: when the response for
\* destination A arrives while the user's last selection is another destination B, the
\* selected destination becomes A with A's server-confirmed route.
C16_LastResponseWins ==
    [][ ( /\ StepOf({"routeResolve"})
          /\ IsSome(userSelected)
          /\ Get(userSelected) # routeReqs[lastEvent'.arg].destination.id )
        => /\ IsSome(selectedDestination')
           /\ Get(selectedDestination').id = routeReqs[lastEvent'.arg].destination.id
           /\ HasRealRoute(Get(selectedDestination')) ]_vars

\* C16 witness: A then B were selected, B's response arrived and then A's: no routing
\* request is pending, the user's last selection B carries its server-confirmed route in
\* the list, and the selected destination is A with a server-confirmed route.
C16_Witness ==
    /\ lastEvent.op = "routeResolve"
    /\ routeReqs = <<>>
    /\ IsSome(userSelected)
    /\ IsSome(selectedDestination)
    /\ Get(selectedDestination).id # Get(userSelected)
    /\ HasRealRoute(Get(selectedDestination))
    /\ IsSome(FindById(destinations, Get(userSelected)))
    /\ HasRealRoute(Get(FindById(destinations, Get(userSelected))))

\* the ids of the destination list
ListIds == {destinations[i].id : i \in 1..Len(destinations)}

\* C17 (as claimed): once the map exists, the destination markers are one per entry of
\* the destination list, with the ids of the list, whatever the list is, the empty list
\* of a category filter that matches no seed entry included.
C17_MarkersMatchList ==
    map => /\ MarkerIds(markers) = ListIds
           /\ Len(markers.dests) = Len(destinations)

\* C18 (as claimed): the emphasized markers are exactly the markers whose id is the
\* selected id, and none when nothing is selected, also after the list changed and the
\* markers were replaced while the selection stayed.
C18_EmphasisMatchesSelection ==
    emphasized = {id \in MarkerIds(markers) :
                     IsSome(selectedDestination) /\ id = Get(selectedDestination).id}

\* C19: once the map has its route source, every change of the selected destination
\* leaves the source with the geometry of the selected route, or empty when nothing is
\* selected or the selection has no route geometry; and once the map exists, the
\* via-waypoint marker (there is one reference, so at most one marker) exists exactly
\* when the selected route has a via waypoint, and is at that waypoint.
C19_RouteLayerFollowsSelection ==
    /\ [][ (routeSource /\ selectedDestination' # selectedDestination) =>
               routeData' = IF /\ IsSome(selectedDestination')
                               /\ IsSome(Get(selectedDestination').route)
                            THEN Get(Get(selectedDestination').route).geometry
                            ELSE None ]_vars
    /\ [](map => viaMarker = IF /\ IsSome(selectedDestination)
                                /\ IsSome(Get(selectedDestination).route)
                             THEN Get(Get(selectedDestination).route).viaWaypoint
                             ELSE None)

\* C19 witness: the route source exists, a detour route with a via waypoint was selected
\* and then the selection was cleared: the source is empty again and the via-waypoint
\* marker, which existed before the step, is gone.
C19_Witness ==
    /\ routeSource
    /\ lastEvent.op = "back"
    /\ selectedDestination = None
    /\ routeData = None
    /\ viaMarker = None
    /\ \E i \in 1..Len(destinations) :
          /\ HasRoute(destinations[i])
          /\ IsSome(Get(destinations[i].route).viaWaypoint)

\* the handlers of a failed service call or query
FailureOps == {"routeFail", "detourFail", "curateReject", "elevationNone", "geoError"}

\* C20: hasError is set only by a failed map initialization; a failed routing, detour,
\* curation, elevation or geolocation call leaves it false; and once it is set, no
\* handler of the normal view runs again: the state does not change any more.
C20_ErrorViewOnlyFromMapInit ==
    [][ /\ hasError' # hasError => hasError' /\ lastEvent'.op = "mountFail"
        /\ StepOf(FailureOps) => ~hasError'
        /\ hasError => UNCHANGED vars ]_vars

\* C20 witness: the map initialization failed and the error view is shown, the
\* destination list never loaded.
C20_Witness ==
    /\ hasError
    /\ lastEvent.op = "mountFail"
    /\ ~map
    /\ destinations = <<>>

----------------------------------------------------------------------------
(* Claims C21 - C29 *)

\* C21 (as claimed): every routing request a selection issues, by a sidebar entry or by
\* a marker click, carries the user location and the user elevation of the state in
\* which the selection is made.
C21_RequestFromCurrentLocation ==
    [][ (StepOf({"select", "markerClick"}) /\ Len(routeReqs') > Len(routeReqs)) =>
          /\ IsSome(userLocation)
          /\ routeReqs'[Len(routeReqs')].origin = Get(userLocation)
          /\ routeReqs'[Len(routeReqs')].elevation = userElevation ]_vars

\* C22 (as claimed): whenever a destination is selected, the destination list has an
\* entry with its id, also when a routing or detour response arrives after a category
\* filter removed that destination.
C22_SelectionInList ==
    IsSome(selectedDestination) =>
        IsSome(FindById(destinations, Get(selectedDestination).id))

\* the routes of a and b are both absent, or have the same distance and isEstimate flag
SameRoute(a, b) ==
    IF IsSome(a.route) /\ IsSome(b.route)
    THEN /\ Get(a.route).distance = Get(b.route).distance
         /\ Get(a.route).isEstimate = Get(b.route).isEstimate
    ELSE a.route = b.route

\* C23 (as claimed): in every state with no request in flight, the selected destination
\* and the list entry with its id carry the same route: the same distance and the same
\* isEstimate flag.
C23_SelectionRouteIsListRoute ==
    ( /\ InFlight = 0
      /\ IsSome(selectedDestination)
      /\ IsSome(FindById(destinations, Get(selectedDestination).id)) )
    => SameRoute(Get(selectedDestination),
                 Get(FindById(destinations, Get(selectedDestination).id)))

\* number of pending requests whose handlers set the loading flag
LoadingRequests == Len(curateReqs) + Len(routeReqs)

\* C24 (as claimed): the loading flag is true in every state in which a curation request
\* or a selection routing request is in flight.
C24_LoadingWhileInFlight == LoadingRequests > 0 => isLoading

\* the selected id, None when nothing is selected
SelectedId(sel) == IF IsSome(sel) THEN Some(Get(sel).id) ELSE None

\* C25 (as claimed): a curation response does not change which destination id is
\* selected, nor the absence of a selection: after it is applied the selected id is
\* what it was before, that is what the user set last.
C25_CurationKeepsSelectedId ==
    [][ StepOf({"curateResolve"}) =>
          SelectedId(selectedDestination') = SelectedId(selectedDestination) ]_vars

\* C26 (as claimed): a curation response brings back no destination that is not in the
\* list when it arrives, so a category filter applied while the request was in flight
\* persists: the list keeps to the filtered category.
C26_FilterSurvivesCuration ==
    [][ StepOf({"curateResolve"}) =>
          /\ {destinations'[i].id : i \in 1..Len(destinations')} \subseteq ListIds
          /\ \A c \in Categories :
                (\A i \in 1..Len(destinations) : destinations[i].category = c) =>
                (\A i \in 1..Len(destinations') : destinations'[i].category = c) ]_vars

\* C27 (as claimed): no material location update is lost: in every state in which
\* nothing is pending, the user location is within 20 units of lastCalcLocation.
C27_NoLostLocationUpdate ==
    (Quiescent /\ IsSome(userLocation) /\ IsSome(lastCalcLocation)) =>
        getDistance(Get(userLocation), Get(lastCalcLocation)) <= RecalcThreshold

\* C28: a step that leaves the user location unknown issues no curation, routing or
\* detour request, and changes the destination list only if it is the initial load of
\* the seed or a category filter.
C28_NoRequestWithoutLocation ==
    [][ ~IsSome(userLocation') =>
          /\ curateReqs' = curateReqs
          /\ routeReqs' = routeReqs
          /\ detourReqs' = detourReqs
          /\ destinations' # destinations => StepOf({"mount", "filter"}) ]_vars

\* C28 witness: the geolocation query failed, the user selected a destination and then
\* asked for a detour: the location is unknown, a destination without a route is
\* selected and no request was ever issued.
C28_Witness ==
    /\ geo = "failed"
    /\ ~IsSome(userLocation)
    /\ lastEvent.op = "updateRoute"
    /\ IsSome(selectedDestination)
    /\ ~HasRoute(Get(selectedDestination))
    /\ IsSome(FindById(destinations, lastEvent.arg))
    /\ InFlight = 0
    /\ ~isLoading

\* the handlers that settle a curation or a selection routing request
LoadingSettleOps == {"curateResolve", "curateReject", "routeResolve", "routeFail"}

\* C29: when no curation and no selection routing request is pending the loading flag
\* is false, so no run ends with the flag true and nothing in flight; every step that
\* settles such a request, by resolving or rejecting, leaves the flag false; and the
\* flag becomes true only in a step that issues such a request.  A true flag therefore
\* has a pending request, and becomes false when that request settles.
C29_LoadingFlagSettles ==
    /\ [](LoadingRequests = 0 => ~isLoading)
    /\ [][ /\ StepOf(LoadingSettleOps) => ~isLoading'
           /\ (~isLoading /\ isLoading') =>
                 Len(curateReqs') + Len(routeReqs') > LoadingRequests ]_vars

\* C29 witness: a curation was computed and a routing request of a selection has just
\* been rejected: nothing is pending and the loading flag is false.
C29_Witness ==
    /\ lastEvent.op = "routeFail"
    /\ InFlight = 0
    /\ ~isLoading
    /\ IsSome(lastCalcLocation)
    /\ IsSome(selectedDestination)
    /\ \A i \in 1..Len(destinations) : HasRoute(destinations[i])

====
